---- MODULE Spec2Model ----
(***************************************************************************)
(* Frame loop of the Diffuse Vulkan renderer.                              *)
(*                                                                         *)
(* The CPU side is the single thread of Application::Update, which polls   *)
(* window events and calls GraphicsDevice::Draw; Draw may call             *)
(* RecreateSwapchain or CleanUpSwapchain.  The GPU side executes the       *)
(* submitted command buffers asynchronously, in submission order, and      *)
(* signals the fence given to each submission.                             *)
(***************************************************************************)
EXTENDS Integers, Sequences, FiniteSets, TLC

VARIABLES
    pc,                     \* position of the CPU thread
    debugBuild,             \* TRUE iff _DEBUG is defined (LOG_ERROR exits)
    m_current_frame_index,  \* GraphicsDevice::m_current_frame_index
    m_wait_fences,          \* slot -> "signaled" | "unsignaled"
    m_framebuffer_resized,  \* GraphicsDevice::m_framebuffer_resized
    uniformBuffersMapped,   \* slot -> content of m_ubo.uniformBuffers[slot]
    ubo,                    \* the local `UBO ubo` of Draw
    result,                 \* the local `VkResult result` of Draw
    imageIndex,             \* the local `uint32_t imageIndex` of Draw
    m_command_buffers,      \* slot -> what was last recorded into the buffer
    swapchain,              \* swapchain + depth image + framebuffers
    width,                  \* the local width/height of RecreateSwapchain
    fbSize,                 \* window framebuffer size (0: minimized)
    shouldClose,            \* glfwWindowShouldClose
    gpuQueue,               \* submissions not yet finished by the GPU
    due,                    \* history: reasons for which a Recreate is owed
    liveObjects,            \* GPU objects of the device created and not destroyed
    physicalDevices,        \* enumerated devices: is the k-th one suitable
    m_physical_device,      \* 0 (VK_NULL_HANDLE) or the index of a device
    m_device,               \* "null" | "created"
    m_models,               \* m_models[0]: material count, nodes, root nodes
    m_descriptor_pools,     \* capacities of m_descriptor_pools.scene
    allocated,              \* what was allocated from m_descriptor_pools.scene
    drawStack,              \* calls of DrawNode still to make, next first
    primIndex,              \* position in the mesh of the node being drawn
    commands,               \* what RecordCommandBuffer recorded so far
    envmap_size,            \* the local envmap_size of SetupSkybox
    textures,               \* the Texture2D objects SetupSkybox creates
    m_descriptor_sets,      \* images written into the skybox and compute sets
    copy_cmd,               \* what SetupSkybox recorded into its copy_cmd
    level,                  \* loop variable of the mip generation
    prevLevelWidth,         \* loop variable of the mip generation
    prevLevelHeight,        \* loop variable of the mip generation
    semaphores,             \* semaphore -> "unsignaled" | "signaled"
    presentQueue,           \* presents the presentation engine has not executed
    images,                 \* swapchain image -> "free" | "acquired" | "queued"
    drawCalls               \* the acquire and the submit the running Draw made

loopVars == <<pc, debugBuild, m_current_frame_index, m_wait_fences,
              m_framebuffer_resized, uniformBuffersMapped, ubo, result,
              imageIndex, m_command_buffers, swapchain, width, fbSize,
              shouldClose, gpuQueue, due, liveObjects>>

\* state of the constructor, of Setup and of RecordCommandBuffer
ctorVars == <<physicalDevices, m_physical_device, m_device>>
poolVars == <<m_descriptor_pools, allocated>>
nodeVars == <<drawStack, primIndex, commands>>
envVars == <<envmap_size, textures, m_descriptor_sets, copy_cmd, level,
             prevLevelWidth, prevLevelHeight>>
syncVars == <<semaphores, presentQueue, images, drawCalls>>
setupVars == <<ctorVars, m_models, poolVars, nodeVars, envVars, syncVars>>

\* variables of the frame loop that the constructor and Setup leave alone
loopRest == <<m_current_frame_index, m_framebuffer_resized,
              uniformBuffersMapped, ubo, result, imageIndex,
              m_command_buffers, width, fbSize, shouldClose, gpuQueue, due>>

vars == <<loopVars, setupVars>>

(***************************************************************************)
(* Program constants and bounds of the model.                              *)
(***************************************************************************)
m_render_ahead == 2

\* camera states a frame may be drawn with: 1..MaxCam
MaxCam == 2
\* non-zero framebuffer sizes the window may take: 1..MaxSize
MaxSize == 2
\* the surface offers swapchains of 2..MaxImages images (minImageCount + 1,
\* capped by maxImageCount)
MaxImages == 3

Slots == 0 .. (m_render_ahead - 1)
CamVals == 1 .. MaxCam
Sizes == 0 .. MaxSize
ImageCounts == 2 .. MaxImages

\* physical devices the instance may enumerate: 0..MaxDevices
MaxDevices == 3
\* nodes of the scene model: up to MaxNodes
MaxNodes == 3
\* primitives of a mesh: up to MaxPrimitives
MaxPrimitives == 2
\* materials of the node-traversal scenes: 1..MaxMaterials
MaxMaterials == 2
\* materials of the scenes the descriptor pool is sized for: 0..MaxPoolMaterials
MaxPoolMaterials == 9
\* sides of the environment cube: 1..MaxEnvmapSize, and 1024
MaxEnvmapSize == 8
\* width and height of the decoded environment.hdr: 1..MaxHdrSize
MaxHdrSize == 2

AcquireResults == {"SUCCESS", "SUBOPTIMAL", "OUT_OF_DATE", "ERROR"}
SubmitResults == {"SUCCESS", "ERROR"}
PresentResults == {"SUCCESS", "SUBOPTIMAL", "OUT_OF_DATE", "ERROR"}

Terminal == {"terminated", "exited", "crashed"}

(***************************************************************************)
(* Window events.  GLFW runs the callbacks on the calling thread, inside   *)
(* glfwPollEvents / glfwWaitEvents only.                                   *)
(***************************************************************************)
Events ==
    {[kind |-> "none", size |-> 0], [kind |-> "close", size |-> 0],
     [kind |-> "other", size |-> 0]}
    \cup {[kind |-> "resize", size |-> s] : s \in Sizes}

\* the events one call can deliver in the current state
Deliverable(blocking) ==
    {ev \in Events : /\ (ev.kind = "resize" => ev.size # fbSize)
                     /\ (blocking => ev.kind # "none")}

\* FramebufferResizeCallback: SetFramebufferResized(true)
FramebufferResizeCallback(ev) ==
    IF ev.kind = "resize" THEN TRUE ELSE m_framebuffer_resized

ProcessEvent(ev) ==
    /\ fbSize' = IF ev.kind = "resize" THEN ev.size ELSE fbSize
    /\ m_framebuffer_resized' = FramebufferResizeCallback(ev)
    /\ shouldClose' = (shouldClose \/ ev.kind = "close")

(***************************************************************************)
(* Helpers of Draw.                                                        *)
(***************************************************************************)
Pending(i) == \E k \in 1 .. Len(gpuQueue) : gpuQueue[k].slot = i

\* vkWaitForFences(fence[i], UINT64_MAX) returns
WaitForFences_NoWait(i) == TRUE
WaitForFences(i) == m_wait_fences[i] = "signaled"

\* vkResetFences(fence[i])
ResetFences_Skipped(i) == m_wait_fences
ResetFences(i) == [m_wait_fences EXCEPT ![i] = "unsignaled"]

\* the buffer Draw on slot i copies the UBO into
UboWriteIndex_Other(i) == (i + 1) % m_render_ahead
UboWriteIndex(i) == i

\* the uniform buffer the material descriptor sets were written with in Setup:
\* bufferInfo.buffer = m_ubo.uniformBuffers[0], whatever the slot
DescriptorUniformBuffer(i) == 0

\* the acquire results on which Draw recreates and returns early
AcquireReturnsEarly_Never(r) == FALSE
AcquireReturnsEarly(r) == r = "OUT_OF_DATE"

\* the present outcomes on which Draw takes the branch of line 1133
PresentNeedsRecreate(r) ==
    r = "OUT_OF_DATE" \/ r = "SUBOPTIMAL" \/ m_framebuffer_resized

\* m_current_frame_index after a present
NextFrameIndex_Stuck(i) == i
NextFrameIndex(i) == (i + 1) % m_render_ahead

\* Draw returns: its locals are gone
DrawReturns ==
    /\ ubo' = 0
    /\ result' = "NONE"
    /\ imageIndex' = 0

\* LOG_ERROR(false, ...): exit(1) under _DEBUG, nothing otherwise
LOG_ERROR(next) == IF debugBuild THEN "exited" ELSE next

(***************************************************************************)
(* CleanUpSwapchain: destroys depth view/image/memory, the framebuffers    *)
(* and the swapchain.  Submissions still on the GPU keep referring to the  *)
(* destroyed framebuffer.                                                  *)
(***************************************************************************)
CleanUpSwapchain == [swapchain EXCEPT !.live = FALSE]

InFlightAfterCleanUp ==
    [k \in 1 .. Len(gpuQueue) |->
        IF gpuQueue[k].fb = "live"
        THEN [gpuQueue[k] EXCEPT !.fb = "destroyed_in_flight"]
        ELSE gpuQueue[k]]

\* m_command_buffers.resize(m_swapchain->GetSwapchainImages().size()) in
\* Setup, for a swapchain of n images; RecreateSwapchain leaves it alone
CommandBufferCount(n) == n

\* Swapchain::Initialize + depth image + framebuffers, as in Setup and
\* RecreateSwapchain
CreateSwapchain(n) ==
    [live |-> TRUE, images |-> n, framebuffers |-> n, extent |-> fbSize]

\* The objects of the device, other than the swapchain set, that the
\* constructor, Setup, CreateUniformBuffer, CreateGraphicsPipeline and
\* SetupSkybox create and leave alive (m_pipelines.compute and
\* envtexture_hdr are destroyed at the end of SetupSkybox).
CreatedObjects ==
    {"m_command_pool", "semaphores", "m_wait_fences", "m_render_pass",
     "m_ubo.uniformBuffers[0]", "m_ubo.uniformBuffers[1]",
     "m_ubo.uniformBuffersMemory[0]", "m_ubo.uniformBuffersMemory[1]",
     "m_descriptor_pools.scene", "m_pipeline_cache",
     "m_descriptorSetLayouts.scene", "m_pipeline_layouts.scene",
     "m_pipelines.scene", "m_descriptor_pools.compute", "m_compute_sampler",
     "m_skybox_sampler", "m_descriptorSetLayouts.skybox",
     "m_pipeline_layouts.skybox", "m_pipelines.skybox", "env_texture",
     "env_texture_unfiltered", "m_descriptorSetLayouts.compute",
     "m_pipeline_layouts.compute"}

\* What CleanUp destroys between CleanUpSwapchain and vkDestroyDevice
CleanUpDestroys ==
    {"m_uniform_buffers[0]", "m_uniform_buffers_memory[0]", "m_render_pass",
     "semaphores", "m_wait_fences", "m_command_pool"}

(***************************************************************************)
(* The scene model m_models[0]: its materials, its nodes (GetLinearNodes)  *)
(* and its root nodes (GetNodes).  A node has a mesh, a sequence of        *)
(* primitives that is empty when node->mesh is null, and children.         *)
(***************************************************************************)
\* the k-th primitive of node i has its own range of the index buffer
FirstIndex(i, k) == 3 * ((i - 1) * MaxPrimitives + (k - 1))

Primitive(mi, f) == [material_index |-> mi, first_index |-> f, index_count |-> 3]

BoundedSeqs(S, n) == UNION {[1 .. k -> S] : k \in 0 .. n}

RECURSIVE Ascending(_)
Ascending(S) ==
    IF S = {} THEN <<>>
    ELSE LET m == CHOOSE x \in S : \A y \in S : x <= y
         IN  <<m>> \o Ascending(S \ {m})

\* node trees: par[i] is the parent of node i, 0 for a root node
Parents ==
    {par \in [1 .. MaxNodes -> 0 .. MaxNodes - 1] :
        \A i \in 1 .. MaxNodes : par[i] < i}

ChildrenOf(par, i) == Ascending({j \in 1 .. MaxNodes : par[j] = i})

\* the model with n materials, tree par, and idx[i] the material indices of
\* the primitives of node i
SceneModel(n, par, idx) ==
    [materials |-> n,
     nodes |-> [i \in 1 .. MaxNodes |->
                  [mesh |-> [k \in 1 .. Len(idx[i]) |->
                                Primitive(idx[i][k], FirstIndex(i, k))],
                   children |-> ChildrenOf(par, i)]],
     roots |-> ChildrenOf(par, 0)]

\* a model of n materials whose nodes are all roots; hasMesh[i] tells
\* whether node i carries a mesh
FlatModel(n, hasMesh) ==
    [materials |-> n,
     nodes |-> [i \in 1 .. Len(hasMesh) |->
                  [mesh |-> IF hasMesh[i] THEN <<Primitive(-1, FirstIndex(i, 1))>>
                            ELSE <<>>,
                   children |-> <<>>]],
     roots |-> [i \in 1 .. Len(hasMesh) |-> i]]

(***************************************************************************)
(* Setup: the sizes of m_descriptor_pools.scene.  The counters are         *)
(* uint32_t; the bounded models stay far below 2^32.                       *)
(***************************************************************************)
\* for (auto& material : GetMaterials()) { imageSamplerCount += 5; ... }
ImageSamplerCount(materialCount) == 5 * materialCount

\* for (auto node : GetLinearNodes()) if (node->mesh) meshCount++;
RECURSIVE MeshCount(_)
MeshCount(nodes) ==
    IF nodes = <<>> THEN 0
    ELSE (IF Head(nodes).mesh # <<>> THEN 1 ELSE 0) + MeshCount(Tail(nodes))

PoolSizeSampler_NoSkybox(imageSamplerCount, imageCount) ==
    imageSamplerCount * imageCount

PoolSizeSampler(imageSamplerCount, imageCount) ==
    imageSamplerCount * imageCount + 2

PoolSizeUniform(meshCount, imageCount) == (4 + meshCount) * imageCount

MaxSets_OneImage(meshCount, materialCount, imageCount) ==
    2 + meshCount + materialCount

MaxSets(meshCount, materialCount, imageCount) ==
    (2 + meshCount + materialCount) * imageCount

DescriptorPoolScene(model, imageCount) ==
    [maxSets |-> MaxSets(MeshCount(model.nodes), model.materials, imageCount),
     samplers |-> PoolSizeSampler(ImageSamplerCount(model.materials), imageCount),
     uniformBuffers |-> PoolSizeUniform(MeshCount(model.nodes), imageCount)]

NoPool == [maxSets |-> 0, samplers |-> 0, uniformBuffers |-> 0]

\* descriptors taken from the pool by `materialSets` sets of the scene layout
\* (1 uniform buffer, 5 combined image samplers) and `skyboxSets` sets of the
\* skybox layout (1 combined image sampler)
Allocation(materialSets, skyboxSets) ==
    [sets |-> materialSets + skyboxSets,
     samplers |-> 5 * materialSets + skyboxSets,
     uniformBuffers |-> materialSets]

Fits(a, pool) ==
    /\ a.sets <= pool.maxSets
    /\ a.samplers <= pool.samplers
    /\ a.uniformBuffers <= pool.uniformBuffers

(***************************************************************************)
(* DrawNode: the material a primitive is drawn with.                       *)
(***************************************************************************)
\* uint32_t index = primitive->material_index > -1 ? primitive->material_index : 0;
MaterialIndex(material_index) ==
    IF material_index > -1 THEN material_index ELSE 0

\* Model::GetMaterial(index).descriptorSet: the set of materials[index],
\* which is a descriptor set only when index is within the materials
GetMaterial(index) ==
    [material |-> index, in_range |-> index < m_models.materials]

(***************************************************************************)
(* The semaphores of the frame slots, created by the constructor, and how  *)
(* Draw passes them to the acquire, the submit and the present.            *)
(***************************************************************************)
RenderCompleteSemaphore(i) ==
    [array |-> "m_render_complete_semaphores", index |-> i]

PresentCompleteSemaphore(i) ==
    [array |-> "m_present_complete_semaphores", index |-> i]

Semaphores ==
    {RenderCompleteSemaphore(i) : i \in Slots}
    \cup {PresentCompleteSemaphore(i) : i \in Slots}

\* the semaphore Draw on slot i passes to vkAcquireNextImageKHR
AcquireSemaphore(i) == RenderCompleteSemaphore(i)

\* VkSemaphore waitSemaphores[] of Draw on slot i
WaitSemaphores_PresentComplete(i) == PresentCompleteSemaphore(i)
WaitSemaphores(i) == RenderCompleteSemaphore(i)

\* VkSemaphore signalSemaphores[] of Draw on slot i
SignalSemaphores(i) == PresentCompleteSemaphore(i)

\* VkSubmitInfo submitInfo of Draw on slot i, and the fence of the submit
SubmitInfo(i) ==
    [call |-> "submit", wait |-> WaitSemaphores(i),
     stage |-> "COLOR_ATTACHMENT_OUTPUT", cmd |-> i,
     signal |-> SignalSemaphores(i), fence |-> i, started |-> FALSE]

\* VkPresentInfoKHR presentInfo of Draw on slot i: pWaitSemaphores =
\* signalSemaphores, pImageIndices = &imageIndex
PresentInfo(i) ==
    [call |-> "present", wait |-> SignalSemaphores(i), image |-> imageIndex]

\* the vkAcquireNextImageKHR call of Draw on slot i, with what it returned
AcquireCall(i, r, img) ==
    [call |-> "acquire", semaphore |-> AcquireSemaphore(i), result |-> r,
     image |-> img]

(***************************************************************************)
(* Textures, image layouts and the commands SetupSkybox records.           *)
(***************************************************************************)
TextureNames == {"env_texture", "env_texture_unfiltered", "envtexture_hdr"}

Layouts ==
    {"UNDEFINED", "GENERAL", "TRANSFER_SRC_OPTIMAL", "TRANSFER_DST_OPTIMAL",
     "SHADER_READ_ONLY_OPTIMAL"}

RECURSIVE FloorLog2(_)
FloorLog2(n) == IF n <= 1 THEN 0 ELSE 1 + FloorLog2(n \div 2)

\* the full mip chain of an image of the given extent
NumMipLevels(w, h) == FloorLog2(IF w > h THEN w ELSE h) + 1

\* the levels argument of the storage-texture constructor: 0 asks for the
\* full chain
MipLevels(levels, w, h) == IF levels = 0 THEN NumMipLevels(w, h) ELSE levels

NoTexture ==
    [created |-> FALSE, m_width |-> 0, m_height |-> 0, m_mip_levels |-> 0,
     m_layers |-> 0, layout |-> [l \in {} |-> "UNDEFINED"]]

\* Texture2D(width, height, layers, format, levels, additionalUsage, device):
\* a new image, every level in UNDEFINED; layout is level -> tracked layout
Texture2D(w, h, layers, levels) ==
    [created |-> TRUE, m_width |-> w, m_height |-> h,
     m_mip_levels |-> MipLevels(levels, w, h), m_layers |-> layers,
     layout |-> [l \in 0 .. MipLevels(levels, w, h) - 1 |-> "UNDEFINED"]]

\* Texture2D(path, format, ...): decoded, uploaded, mipped, left in
\* SHADER_READ_ONLY
Texture2DFromFile(w, h) ==
    [created |-> TRUE, m_width |-> w, m_height |-> h,
     m_mip_levels |-> NumMipLevels(w, h), m_layers |-> 1,
     layout |-> [l \in 0 .. NumMipLevels(w, h) - 1 |->
                    "SHADER_READ_ONLY_OPTIMAL"]]

GetMipLevels(t) == textures[t].m_mip_levels
GetWidth(t) == textures[t].m_width
GetHeight(t) == textures[t].m_height
GetLayers(t) == textures[t].m_layers

\* VkImageSubresourceRange: the levels and layers it names.  A count of
\* VK_REMAINING_ARRAY_LAYERS names every layer of the image from the base on.
LevelRange(baseMipLevel, levelCount) ==
    baseMipLevel .. baseMipLevel + levelCount - 1

RemainingLayers(t) == 0 .. GetLayers(t) - 1

\* a VkImageMemoryBarrier as filled in by SetupSkybox
Barrier(image, oldLayout, newLayout, levels, layers) ==
    [cmd |-> "barrier", image |-> image, oldLayout |-> oldLayout,
     newLayout |-> newLayout, levels |-> levels, layers |-> layers]

\* vkCmdDispatch through the bound compute set: it writes level 0 of the
\* storage image of binding 1
Dispatch(image, groups) ==
    [cmd |-> "dispatch", image |-> image, levels |-> {0}, groups |-> groups]

\* VkImageBlit + vkCmdBlitImage
Blit(image, srcLevel, dstLevel, layers, srcExtent, dstExtent) ==
    [cmd |-> "blit", image |-> image, srcLevel |-> srcLevel,
     srcLayout |-> "TRANSFER_SRC_OPTIMAL", dstLevel |-> dstLevel,
     dstLayout |-> "TRANSFER_DST_OPTIMAL", layers |-> layers,
     srcExtent |-> srcExtent, dstExtent |-> dstExtent]

\* the levels of its image a barrier changes
Covered(texs, b) ==
    IF b.layers = {} THEN {} ELSE b.levels \cap DOMAIN texs[b.image].layout

\* what vkCmdPipelineBarrier requires of the barrier: a range of at least one
\* level and one layer inside the image, and an oldLayout that is UNDEFINED
\* or the layout the levels are in
BarrierDefined(texs, b) ==
    /\ b.levels # {}
    /\ b.layers # {}
    /\ b.levels \subseteq DOMAIN texs[b.image].layout
    /\ \A l \in Covered(texs, b) :
        b.oldLayout \in {"UNDEFINED", texs[b.image].layout[l]}

\* what vkCmdBlitImage requires: both levels exist and are in the layouts
\* passed to the call
BlitDefined(texs, b) ==
    /\ {b.srcLevel, b.dstLevel} \subseteq DOMAIN texs[b.image].layout
    /\ texs[b.image].layout[b.srcLevel] = b.srcLayout
    /\ texs[b.image].layout[b.dstLevel] = b.dstLayout

\* what the compute write requires: level 0 is in GENERAL
DispatchDefined(texs, d) ==
    \A l \in d.levels :
        /\ l \in DOMAIN texs[d.image].layout
        /\ texs[d.image].layout[l] = "GENERAL"

\* the layouts after the barrier
ApplyBarrier(texs, b) ==
    [texs EXCEPT ![b.image].layout =
        [l \in DOMAIN @ |-> IF l \in Covered(texs, b) THEN b.newLayout
                            ELSE @[l]]]

(***************************************************************************)
(* States of the parts of the program a specification does not run.        *)
(***************************************************************************)
LoopIdle ==
    /\ m_current_frame_index = 0
    /\ m_framebuffer_resized = FALSE
    /\ uniformBuffersMapped = [i \in Slots |-> 0]
    /\ ubo = 0
    /\ result = "NONE"
    /\ imageIndex = 0
    /\ m_command_buffers = [i \in Slots |-> "initial"]
    /\ width = 0
    /\ fbSize = 1
    /\ shouldClose = FALSE
    /\ gpuQueue = <<>>
    /\ due = {}

NoSwapchain == [live |-> FALSE, images |-> 0, framebuffers |-> 0, extent |-> 0]

CtorDone ==
    /\ physicalDevices = <<TRUE>>
    /\ m_physical_device = 1
    /\ m_device = "created"

\* the scene of the frame loop: one node with one primitive, one material
DefaultModel == FlatModel(1, <<TRUE>>)

\* the scene pool and its sets are used by Setup and SetupSkybox only
PoolIdle ==
    /\ m_descriptor_pools = NoPool
    /\ allocated = Allocation(0, 0)

RecordIdle ==
    /\ drawStack = <<>>
    /\ primIndex = 0
    /\ commands = <<>>

\* SetupSkybox has not run, or is not looked at
NoTextures == [t \in TextureNames |-> NoTexture]

NoDescriptorSets == [skybox |-> "none", input |-> "none", output |-> "none"]

EnvIdle ==
    /\ envmap_size = 0
    /\ textures = NoTextures
    /\ m_descriptor_sets = NoDescriptorSets
    /\ copy_cmd = <<>>
    /\ level = 0
    /\ prevLevelWidth = 0
    /\ prevLevelHeight = 0

\* the semaphores and the presentation engine, where they are not looked at
SyncIdle ==
    /\ semaphores = [s \in Semaphores |-> "unsignaled"]
    /\ presentQueue = <<>>
    /\ images = <<>>
    /\ drawCalls = <<>>

(***************************************************************************)
(* Initial state: after the constructor and Setup.                         *)
(***************************************************************************)
Init ==
    /\ pc = "loop"
    /\ debugBuild \in BOOLEAN
    /\ m_current_frame_index = 0
    /\ m_wait_fences = [i \in Slots |-> "signaled"]
    /\ m_framebuffer_resized = FALSE
    /\ uniformBuffersMapped = [i \in Slots |-> 0]
    /\ ubo = 0
    /\ result = "NONE"
    /\ imageIndex = 0
    /\ m_command_buffers = [i \in Slots |-> "initial"]
    /\ fbSize \in Sizes \ {0}
    /\ \E n \in ImageCounts : swapchain = CreateSwapchain(n)
    /\ width = 0
    /\ shouldClose = FALSE
    /\ gpuQueue = <<>>
    /\ due = {}
    /\ liveObjects = CreatedObjects
    /\ CtorDone
    /\ m_models = DefaultModel
    /\ PoolIdle
    /\ RecordIdle
    /\ EnvIdle
    /\ SyncIdle

(***************************************************************************)
(* Application::Update                                                     *)
(***************************************************************************)
LoopCheck ==
    /\ pc = "loop"
    /\ pc' = IF shouldClose THEN "cu_waitevents" ELSE "poll"
    /\ UNCHANGED setupVars
    /\ UNCHANGED <<liveObjects, debugBuild, m_current_frame_index, m_wait_fences,
                   m_framebuffer_resized, uniformBuffersMapped, ubo, result,
                   imageIndex, m_command_buffers, swapchain, width, fbSize,
                   shouldClose, gpuQueue, due>>

PollEvents ==
    /\ pc = "poll"
    /\ \E ev \in Deliverable(FALSE) : ProcessEvent(ev)
    /\ pc' = "wait"
    /\ UNCHANGED setupVars
    /\ UNCHANGED <<liveObjects, debugBuild, m_current_frame_index, m_wait_fences,
                   uniformBuffersMapped, ubo, result, imageIndex,
                   m_command_buffers, swapchain, width, gpuQueue, due>>

(***************************************************************************)
(* GraphicsDevice::Draw                                                    *)
(***************************************************************************)
DrawWait ==
    /\ pc = "wait"
    /\ WaitForFences(m_current_frame_index)
    /\ pc' = "check_resized"
    /\ result' = "NONE"
    /\ UNCHANGED setupVars
    /\ UNCHANGED <<liveObjects, debugBuild, m_current_frame_index, m_wait_fences,
                   m_framebuffer_resized, uniformBuffersMapped, ubo,
                   imageIndex, m_command_buffers, swapchain, width, fbSize,
                   shouldClose, gpuQueue, due>>

DrawCheckResized ==
    /\ pc = "check_resized"
    /\ pc' = IF m_framebuffer_resized THEN "rc_getsize" ELSE "acquire"
    /\ UNCHANGED setupVars
    /\ UNCHANGED <<liveObjects, debugBuild, m_current_frame_index, m_wait_fences,
                   m_framebuffer_resized, uniformBuffersMapped, ubo, result,
                   imageIndex, m_command_buffers, swapchain, width, fbSize,
                   shouldClose, gpuQueue, due>>

\* vkAcquireNextImageKHR and the branches on its result.  On an error that
\* LOG_ERROR lets pass, imageIndex was never written: any value.
DrawAcquire ==
    /\ pc = "acquire"
    /\ \E r \in AcquireResults, img \in 0 .. MaxImages :
        /\ result' = r
        /\ IF AcquireReturnsEarly(r)
           THEN /\ pc' = "rc_getsize"
                /\ UNCHANGED <<imageIndex, due>>
           ELSE IF r \in {"SUCCESS", "SUBOPTIMAL"}
           THEN /\ img < swapchain.images
                /\ imageIndex' = img
                /\ pc' = "update"
                /\ due' = IF r = "SUBOPTIMAL" THEN due \cup {"acquire"} ELSE due
           ELSE /\ imageIndex' = img
                /\ pc' = LOG_ERROR("update")
                /\ UNCHANGED due
    /\ UNCHANGED setupVars
    /\ UNCHANGED <<liveObjects, debugBuild, m_current_frame_index, m_wait_fences,
                   m_framebuffer_resized, uniformBuffersMapped, ubo,
                   m_command_buffers, swapchain, width, fbSize, shouldClose,
                   gpuQueue>>

DrawUpdateUniform ==
    /\ pc = "update"
    /\ \E c \in CamVals :
        /\ ubo' = c
        /\ uniformBuffersMapped' =
              [uniformBuffersMapped EXCEPT ![UboWriteIndex(m_current_frame_index)] = c]
    /\ pc' = "reset"
    /\ UNCHANGED setupVars
    /\ UNCHANGED <<liveObjects, debugBuild, m_current_frame_index, m_wait_fences,
                   m_framebuffer_resized, result, imageIndex,
                   m_command_buffers, swapchain, width, fbSize, shouldClose,
                   gpuQueue, due>>

DrawResetFence ==
    /\ pc = "reset"
    /\ m_wait_fences' = ResetFences(m_current_frame_index)
    /\ pc' = "record"
    /\ UNCHANGED setupVars
    /\ UNCHANGED <<liveObjects, debugBuild, m_current_frame_index, m_framebuffer_resized,
                   uniformBuffersMapped, ubo, result, imageIndex,
                   m_command_buffers, swapchain, width, fbSize, shouldClose,
                   gpuQueue, due>>

\* vkResetCommandBuffer + RecordCommandBuffer: the render pass begins on
\* m_framebuffers[imageIndex]
RecordedFramebuffer ==
    IF swapchain.live /\ imageIndex < swapchain.images
    THEN "live" ELSE "dead_at_record"

DrawRecord ==
    /\ pc = "record"
    /\ m_command_buffers' =
          [m_command_buffers EXCEPT ![m_current_frame_index] = RecordedFramebuffer]
    /\ pc' = "submit"
    /\ UNCHANGED setupVars
    /\ UNCHANGED <<liveObjects, debugBuild, m_current_frame_index, m_wait_fences,
                   m_framebuffer_resized, uniformBuffersMapped, ubo, result,
                   imageIndex, swapchain, width, fbSize, shouldClose,
                   gpuQueue, due>>

Submission(i) ==
    [slot |-> i, wrote |-> ubo, read |-> -1, fb |-> m_command_buffers[i]]

DrawSubmit ==
    /\ pc = "submit"
    /\ \E r \in SubmitResults :
        /\ IF r = "SUCCESS"
           THEN /\ gpuQueue' = Append(gpuQueue, Submission(m_current_frame_index))
                /\ pc' = "present"
           ELSE /\ pc' = LOG_ERROR("present")
                /\ UNCHANGED gpuQueue
    /\ UNCHANGED setupVars
    /\ UNCHANGED <<liveObjects, debugBuild, m_current_frame_index, m_wait_fences,
                   m_framebuffer_resized, uniformBuffersMapped, ubo, result,
                   imageIndex, m_command_buffers, swapchain, width, fbSize,
                   shouldClose, due>>

\* vkQueuePresentKHR, the branches on its result, and the slot advance
DrawPresent ==
    /\ pc = "present"
    /\ \E r \in PresentResults :
        /\ IF PresentNeedsRecreate(r)
           THEN /\ m_framebuffer_resized' = FALSE
                /\ swapchain' = CleanUpSwapchain
                /\ gpuQueue' = InFlightAfterCleanUp
                /\ due' = due \cup {"present"}
                /\ pc' = "loop"
                /\ m_current_frame_index' = NextFrameIndex(m_current_frame_index)
           ELSE /\ pc' = IF r = "SUCCESS" THEN "loop" ELSE LOG_ERROR("loop")
                /\ m_current_frame_index' =
                      IF pc' = "loop" THEN NextFrameIndex(m_current_frame_index)
                      ELSE m_current_frame_index
                /\ UNCHANGED <<m_framebuffer_resized, swapchain, gpuQueue, due>>
    /\ DrawReturns
    /\ UNCHANGED setupVars
    /\ UNCHANGED <<liveObjects, debugBuild, m_wait_fences, uniformBuffersMapped,
                   m_command_buffers, width, fbSize, shouldClose>>

(***************************************************************************)
(* GraphicsDevice::RecreateSwapchain, as called from Draw (which then sets *)
(* m_framebuffer_resized = false and returns).                             *)
(***************************************************************************)
RecreateGetSize ==
    /\ pc = "rc_getsize"
    /\ width' = fbSize
    /\ pc' = "rc_loop"
    /\ UNCHANGED setupVars
    /\ UNCHANGED <<liveObjects, debugBuild, m_current_frame_index, m_wait_fences,
                   m_framebuffer_resized, uniformBuffersMapped, ubo, result,
                   imageIndex, m_command_buffers, swapchain, fbSize,
                   shouldClose, gpuQueue, due>>

\* while (width == 0 || height == 0) { glfwGetFramebufferSize(...); ...
RecreateLoop ==
    /\ pc = "rc_loop"
    /\ IF width = 0
       THEN /\ width' = fbSize
            /\ pc' = "rc_waitevents"
       ELSE /\ pc' = "rc_waitidle"
            /\ UNCHANGED width
    /\ UNCHANGED setupVars
    /\ UNCHANGED <<liveObjects, debugBuild, m_current_frame_index, m_wait_fences,
                   m_framebuffer_resized, uniformBuffersMapped, ubo, result,
                   imageIndex, m_command_buffers, swapchain, fbSize,
                   shouldClose, gpuQueue, due>>

\* ... glfwWaitEvents(); }
RecreateWaitEvents ==
    /\ pc = "rc_waitevents"
    /\ \E ev \in Deliverable(TRUE) : ProcessEvent(ev)
    /\ pc' = "rc_loop"
    /\ UNCHANGED setupVars
    /\ UNCHANGED <<liveObjects, debugBuild, m_current_frame_index, m_wait_fences,
                   uniformBuffersMapped, ubo, result, imageIndex,
                   m_command_buffers, swapchain, width, gpuQueue, due>>

\* vkDeviceWaitIdle
RecreateWaitIdle ==
    /\ pc = "rc_waitidle"
    /\ gpuQueue = <<>>
    /\ pc' = "rc_body"
    /\ UNCHANGED setupVars
    /\ UNCHANGED <<liveObjects, debugBuild, m_current_frame_index, m_wait_fences,
                   m_framebuffer_resized, uniformBuffersMapped, ubo, result,
                   imageIndex, m_command_buffers, swapchain, width, fbSize,
                   shouldClose, gpuQueue, due>>

\* CleanUpSwapchain, then swapchain, depth resource and framebuffers are
\* created again; back in Draw: m_framebuffer_resized = false; return
RecreateBody ==
    /\ pc = "rc_body"
    /\ gpuQueue' = InFlightAfterCleanUp
    /\ \E n \in ImageCounts : swapchain' = CreateSwapchain(n)
    /\ m_framebuffer_resized' = FALSE
    /\ due' = {}
    /\ pc' = "loop"
    /\ width' = 0
    /\ DrawReturns
    /\ UNCHANGED setupVars
    /\ UNCHANGED <<liveObjects, debugBuild, m_current_frame_index, m_wait_fences,
                   uniformBuffersMapped, m_command_buffers, fbSize,
                   shouldClose>>

(***************************************************************************)
(* GraphicsDevice::CleanUp, called once the loop has ended.                *)
(***************************************************************************)
CleanUpWaitEvents ==
    /\ pc = "cu_waitevents"
    /\ \E ev \in Deliverable(TRUE) : ProcessEvent(ev)
    /\ pc' = "cu_waitidle"
    /\ UNCHANGED setupVars
    /\ UNCHANGED <<liveObjects, debugBuild, m_current_frame_index, m_wait_fences,
                   uniformBuffersMapped, ubo, result, imageIndex,
                   m_command_buffers, swapchain, width, gpuQueue, due>>

CleanUpWaitIdle ==
    /\ pc = "cu_waitidle"
    /\ gpuQueue = <<>>
    /\ pc' = "cu_body"
    /\ UNCHANGED setupVars
    /\ UNCHANGED <<liveObjects, debugBuild, m_current_frame_index, m_wait_fences,
                   m_framebuffer_resized, uniformBuffersMapped, ubo, result,
                   imageIndex, m_command_buffers, swapchain, width, fbSize,
                   shouldClose, gpuQueue, due>>

CleanUp ==
    /\ pc = "cu_body"
    /\ swapchain' = CleanUpSwapchain
    /\ gpuQueue' = InFlightAfterCleanUp
    /\ liveObjects' = liveObjects \ CleanUpDestroys
    /\ pc' = "terminated"
    /\ UNCHANGED setupVars
    /\ UNCHANGED <<debugBuild, m_current_frame_index, m_wait_fences,
                   m_framebuffer_resized, uniformBuffersMapped, ubo, result,
                   imageIndex, m_command_buffers, width, fbSize, shouldClose,
                   due>>

(***************************************************************************)
(* Use of a destroyed swapchain, framebuffer or depth image by the CPU     *)
(* (acquire, begin render pass, present, destroy again), and the read of   *)
(* m_framebuffers past its end, are undefined: the call may also crash.    *)
(***************************************************************************)
UseAfterDestroy ==
    /\ pc \in {"acquire", "record", "present", "rc_body", "cu_body"}
    /\ IF pc = "record" THEN RecordedFramebuffer # "live" ELSE ~swapchain.live
    /\ pc' = "crashed"
    /\ UNCHANGED setupVars
    /\ UNCHANGED <<liveObjects, debugBuild, m_current_frame_index, m_wait_fences,
                   m_framebuffer_resized, uniformBuffersMapped, ubo, result,
                   imageIndex, m_command_buffers, swapchain, width, fbSize,
                   shouldClose, gpuQueue, due>>

(***************************************************************************)
(* The GPU.  A submission reads the uniform buffer its descriptor set      *)
(* names at some moment of its execution; submissions finish in order and  *)
(* signal their fence.                                                     *)
(***************************************************************************)
GpuReadUniform ==
    /\ pc \notin Terminal
    /\ \E k \in 1 .. Len(gpuQueue) :
        /\ gpuQueue[k].read = -1
        /\ gpuQueue' =
              [gpuQueue EXCEPT ![k].read =
                  uniformBuffersMapped[DescriptorUniformBuffer(gpuQueue[k].slot)]]
    /\ UNCHANGED setupVars
    /\ UNCHANGED <<liveObjects, pc, debugBuild, m_current_frame_index, m_wait_fences,
                   m_framebuffer_resized, uniformBuffersMapped, ubo, result,
                   imageIndex, m_command_buffers, swapchain, width, fbSize,
                   shouldClose, due>>

GpuComplete ==
    /\ pc \notin Terminal
    /\ gpuQueue # <<>>
    /\ Head(gpuQueue).read # -1
    /\ m_wait_fences' = [m_wait_fences EXCEPT ![Head(gpuQueue).slot] = "signaled"]
    /\ gpuQueue' = Tail(gpuQueue)
    /\ UNCHANGED setupVars
    /\ UNCHANGED <<liveObjects, pc, debugBuild, m_current_frame_index,
                   m_framebuffer_resized, uniformBuffersMapped, ubo, result,
                   imageIndex, m_command_buffers, swapchain, width, fbSize,
                   shouldClose, due>>

Next ==
    \/ LoopCheck
    \/ PollEvents
    \/ DrawWait
    \/ DrawCheckResized
    \/ DrawAcquire
    \/ DrawUpdateUniform
    \/ DrawResetFence
    \/ DrawRecord
    \/ DrawSubmit
    \/ DrawPresent
    \/ RecreateGetSize
    \/ RecreateLoop
    \/ RecreateWaitEvents
    \/ RecreateWaitIdle
    \/ RecreateBody
    \/ CleanUpWaitEvents
    \/ CleanUpWaitIdle
    \/ CleanUp
    \/ UseAfterDestroy
    \/ GpuReadUniform
    \/ GpuComplete

Spec == Init /\ [][Next]_vars

(***************************************************************************)
(* GraphicsDevice::GraphicsDevice, from "Pick Physical Device" on.         *)
(***************************************************************************)
ctorRest == <<loopRest, debugBuild, swapchain, physicalDevices, m_models,
              poolVars, nodeVars, envVars, syncVars>>

CallResults == {"SUCCESS", "ERROR"}

CtorInit ==
    /\ pc = "ctor_enumerate"
    /\ debugBuild \in BOOLEAN
    /\ physicalDevices \in BoundedSeqs(BOOLEAN, MaxDevices)
    /\ m_physical_device = 0
    /\ m_device = "null"
    /\ m_wait_fences = [i \in Slots |-> "null"]
    /\ liveObjects = {}
    /\ LoopIdle
    /\ swapchain = NoSwapchain
    /\ m_models = DefaultModel
    /\ PoolIdle
    /\ RecordIdle
    /\ EnvIdle
    /\ SyncIdle

\* vkEnumeratePhysicalDevices; if (device_count == 0) LOG_ERROR(...)
CtorEnumerate ==
    /\ pc = "ctor_enumerate"
    /\ pc' = IF Len(physicalDevices) = 0 THEN LOG_ERROR("ctor_pick")
             ELSE "ctor_pick"
    /\ UNCHANGED <<ctorRest, m_physical_device, m_device, m_wait_fences,
                   liveObjects>>

\* for (device : devices) if (IsDeviceSuitable(device)) { ...; break; }
FirstSuitable(devices) ==
    IF \E k \in 1 .. Len(devices) : devices[k]
    THEN CHOOSE k \in 1 .. Len(devices) :
            devices[k] /\ \A j \in 1 .. k - 1 : ~devices[j]
    ELSE 0

\* the loop, then if (m_physical_device == VK_NULL_HANDLE) LOG_ERROR(...)
CtorPick ==
    /\ pc = "ctor_pick"
    /\ m_physical_device' = FirstSuitable(physicalDevices)
    /\ pc' = IF m_physical_device' = 0 THEN LOG_ERROR("ctor_device")
             ELSE "ctor_device"
    /\ UNCHANGED <<ctorRest, m_device, m_wait_fences, liveObjects>>

\* FindQueueFamilies(m_physical_device), vkCreateDevice, vkGetDeviceQueue
CtorCreateDevice ==
    /\ pc = "ctor_device"
    /\ \E r \in CallResults :
        IF r = "SUCCESS"
        THEN /\ m_device' = "created"
             /\ pc' = "ctor_pool"
        ELSE /\ pc' = LOG_ERROR("ctor_pool")
             /\ UNCHANGED m_device
    /\ UNCHANGED <<ctorRest, m_physical_device, m_wait_fences, liveObjects>>

CtorCreateCommandPool ==
    /\ pc = "ctor_pool"
    /\ \E r \in CallResults :
        IF r = "SUCCESS"
        THEN /\ liveObjects' = liveObjects \cup {"m_command_pool"}
             /\ pc' = "ctor_sync"
        ELSE /\ pc' = LOG_ERROR("ctor_sync")
             /\ UNCHANGED liveObjects
    /\ UNCHANGED <<ctorRest, m_physical_device, m_device, m_wait_fences>>

\* the fences are created with VK_FENCE_CREATE_SIGNALED_BIT
CtorCreateSyncObjects ==
    /\ pc = "ctor_sync"
    /\ \E r \in CallResults :
        IF r = "SUCCESS"
        THEN /\ liveObjects' = liveObjects \cup {"semaphores", "m_wait_fences"}
             /\ m_wait_fences' = [i \in Slots |-> "signaled"]
             /\ pc' = "ctor_done"
        ELSE /\ pc' = LOG_ERROR("ctor_done")
             /\ UNCHANGED <<liveObjects, m_wait_fences>>
    /\ UNCHANGED <<ctorRest, m_physical_device, m_device>>

\* A Vulkan call on VK_NULL_HANDLE is undefined: it may also crash.
CtorUseNull ==
    /\ \/ pc = "ctor_device" /\ m_physical_device = 0
       \/ pc \in {"ctor_pool", "ctor_sync"} /\ m_device = "null"
    /\ pc' = "crashed"
    /\ UNCHANGED <<ctorRest, m_physical_device, m_device, m_wait_fences,
                   liveObjects>>

CtorNext ==
    \/ CtorEnumerate
    \/ CtorPick
    \/ CtorCreateDevice
    \/ CtorCreateCommandPool
    \/ CtorCreateSyncObjects
    \/ CtorUseNull

SpecCtor == CtorInit /\ [][CtorNext]_vars

(***************************************************************************)
(* GraphicsDevice::Setup and SetupSkybox: m_descriptor_pools.scene and the *)
(* descriptor sets allocated from it.                                      *)
(***************************************************************************)
poolRest == <<loopRest, debugBuild, swapchain, m_wait_fences, ctorVars,
              m_models, nodeVars, envVars, syncVars>>

\* what exists when Setup reaches the pool
CreatedBeforePool ==
    {"m_command_pool", "semaphores", "m_wait_fences", "m_render_pass",
     "m_ubo.uniformBuffers[0]", "m_ubo.uniformBuffers[1]",
     "m_ubo.uniformBuffersMemory[0]", "m_ubo.uniformBuffersMemory[1]"}

PoolInit ==
    /\ pc = "setup_pool"
    /\ debugBuild = FALSE
    /\ CtorDone
    /\ m_wait_fences = [i \in Slots |-> "signaled"]
    /\ liveObjects = CreatedBeforePool
    /\ LoopIdle
    /\ \E n \in ImageCounts : swapchain = CreateSwapchain(n)
    /\ \E n \in 0 .. MaxPoolMaterials, hasMesh \in BoundedSeqs(BOOLEAN, MaxNodes) :
        m_models = FlatModel(n, hasMesh)
    /\ m_descriptor_pools = NoPool
    /\ allocated = Allocation(0, 0)
    /\ RecordIdle
    /\ EnvIdle
    /\ SyncIdle

\* the counting loops and vkCreateDescriptorPool
SetupDescriptorPool ==
    /\ pc = "setup_pool"
    /\ \E r \in CallResults :
        IF r = "SUCCESS"
        THEN /\ m_descriptor_pools' = DescriptorPoolScene(m_models, swapchain.images)
             /\ liveObjects' = liveObjects \cup {"m_descriptor_pools.scene"}
             /\ pc' = "setup_sets"
        ELSE /\ pc' = "thrown"
             /\ UNCHANGED <<m_descriptor_pools, liveObjects>>
    /\ UNCHANGED <<poolRest, allocated>>

\* for (i < GetMaterials().size()) { vkAllocateDescriptorSets(...); ... }
SetupMaterialSets ==
    /\ pc = "setup_sets"
    /\ IF allocated.sets < m_models.materials
       THEN IF Fits(Allocation(allocated.sets + 1, 0), m_descriptor_pools)
            THEN /\ allocated' = Allocation(allocated.sets + 1, 0)
                 /\ UNCHANGED pc
            ELSE /\ pc' = "thrown"
                 /\ UNCHANGED allocated
       ELSE /\ pc' = "setup_skybox"
            /\ UNCHANGED allocated
    /\ UNCHANGED <<poolRest, m_descriptor_pools, liveObjects>>

\* SetupSkybox: m_descriptor_sets.skybox comes from the scene pool
SetupSkyboxSet ==
    /\ pc = "setup_skybox"
    /\ IF Fits(Allocation(m_models.materials, 1), m_descriptor_pools)
       THEN /\ allocated' = Allocation(m_models.materials, 1)
            /\ pc' = "setup_done"
       ELSE /\ pc' = "thrown"
            /\ UNCHANGED allocated
    /\ UNCHANGED <<poolRest, m_descriptor_pools, liveObjects>>

PoolNext ==
    \/ SetupDescriptorPool
    \/ SetupMaterialSets
    \/ SetupSkyboxSet

SpecPool == PoolInit /\ [][PoolNext]_vars

(***************************************************************************)
(* GraphicsDevice::RecordCommandBuffer and DrawNode.  The recursion of     *)
(* DrawNode is kept as the stack of the calls still to make.               *)
(***************************************************************************)
nodeRest == <<loopRest, debugBuild, swapchain, m_wait_fences, liveObjects,
              ctorVars, m_models, poolVars, envVars, syncVars>>

\* material indices a primitive of a model of n materials may carry: none
\* (-1), one of the materials, or one past the last
MaterialIndices(n) == -1 .. n

NodeInit ==
    /\ pc = "rec_begin"
    /\ debugBuild = FALSE
    /\ CtorDone
    /\ m_wait_fences = [i \in Slots |-> "signaled"]
    /\ liveObjects = CreatedObjects
    /\ LoopIdle
    /\ swapchain = CreateSwapchain(MaxImages)
    /\ \E n \in 1 .. MaxMaterials, par \in Parents :
        \E idx \in [1 .. MaxNodes -> BoundedSeqs(MaterialIndices(n), MaxPrimitives)] :
            m_models = SceneModel(n, par, idx)
    /\ PoolIdle
    /\ RecordIdle
    /\ EnvIdle
    /\ SyncIdle

BindDescriptorSets(set) == [op |-> "bind_descriptor_sets", set |-> set]

DrawIndexed(primitive) ==
    [op |-> "draw_indexed", index_count |-> primitive.index_count,
     instance_count |-> 1, first_index |-> primitive.first_index,
     vertex_offset |-> 0, first_instance |-> 0]

\* vkBeginCommandBuffer ... for (auto& node : GetNodes()) DrawNode(node, ...)
RecordBegin ==
    /\ pc = "rec_begin"
    /\ \E r \in CallResults :
        IF r = "SUCCESS"
        THEN /\ drawStack' = m_models.roots
             /\ pc' = "rec_node"
        ELSE /\ pc' = "thrown"
             /\ UNCHANGED drawStack
    /\ UNCHANGED <<nodeRest, primIndex, commands>>

\* entry of DrawNode(node)
DrawNode ==
    /\ pc = "rec_node"
    /\ drawStack # <<>>
    /\ primIndex' = 1
    /\ pc' = "rec_prim"
    /\ UNCHANGED <<nodeRest, drawStack, commands>>

CurrentMesh == m_models.nodes[Head(drawStack)].mesh

\* one round of the loop over node->mesh->primitives
DrawPrimitive ==
    /\ pc = "rec_prim"
    /\ primIndex <= Len(CurrentMesh)
    /\ LET primitive == CurrentMesh[primIndex]
           index == MaterialIndex(primitive.material_index)
       IN  commands' = commands \o <<BindDescriptorSets(GetMaterial(index)),
                                      DrawIndexed(primitive)>>
    /\ primIndex' = primIndex + 1
    /\ UNCHANGED <<nodeRest, pc, drawStack>>

\* GetMaterial past the end of the materials is undefined: the read, or the
\* bind of what was read, may also crash
MaterialOutOfRange ==
    /\ pc = "rec_prim"
    /\ primIndex <= Len(CurrentMesh)
    /\ ~GetMaterial(MaterialIndex(CurrentMesh[primIndex].material_index)).in_range
    /\ pc' = "crashed"
    /\ UNCHANGED <<nodeRest, drawStack, primIndex, commands>>

\* for (auto& child : node->children) DrawNode(child, commandBuffer);
DrawChildren(stack) ==
    m_models.nodes[Head(stack)].children \o Tail(stack)

DrawNodeChildren ==
    /\ pc = "rec_prim"
    /\ primIndex > Len(CurrentMesh)
    /\ drawStack' = DrawChildren(drawStack)
    /\ primIndex' = 0
    /\ pc' = "rec_node"
    /\ UNCHANGED <<nodeRest, commands>>

\* vkCmdEndRenderPass, vkEndCommandBuffer
RecordEnd ==
    /\ pc = "rec_node"
    /\ drawStack = <<>>
    /\ \E r \in CallResults :
        pc' = IF r = "SUCCESS" THEN "rec_done" ELSE "thrown"
    /\ UNCHANGED <<nodeRest, nodeVars>>

NodeNext ==
    \/ RecordBegin
    \/ DrawNode
    \/ DrawPrimitive
    \/ MaterialOutOfRange
    \/ DrawNodeChildren
    \/ RecordEnd

SpecNode == NodeInit /\ [][NodeNext]_vars

(***************************************************************************)
(* GraphicsDevice::SetupSkybox, from the creation of the environment       *)
(* textures on: the skybox descriptor set, the equirect-to-cube compute    *)
(* pass and the generation of the mip chain.  The tracked layout of a      *)
(* level changes where the barrier that names it is recorded; a command    *)
(* that breaks the rules of its vkCmd* call is undefined: the run may      *)
(* crash, and otherwise goes on with the layouts the valid part gives.     *)
(***************************************************************************)
envRest == <<loopRest, debugBuild, swapchain, m_wait_fences, ctorVars,
             m_models, nodeVars, m_descriptor_pools, syncVars>>

\* sides of the environment cube: the small ones and the 1024 of the source
EnvmapSizes == (1 .. MaxEnvmapSize) \cup {1024}

\* extents of the decoded environment.hdr
HdrSizes == 1 .. MaxHdrSize

\* what exists when SetupSkybox reaches the environment textures
CreatedBeforeEnv ==
    CreatedBeforePool \cup
    {"m_descriptor_pools.scene", "m_pipeline_cache",
     "m_descriptorSetLayouts.scene", "m_pipeline_layouts.scene",
     "m_pipelines.scene", "m_descriptor_pools.compute", "m_compute_sampler",
     "m_skybox_sampler", "m_descriptorSetLayouts.skybox",
     "m_pipeline_layouts.skybox", "m_pipelines.skybox"}

EnvInit ==
    /\ pc = "env_texture"
    /\ debugBuild = FALSE
    /\ CtorDone
    /\ m_wait_fences = [i \in Slots |-> "signaled"]
    /\ liveObjects = CreatedBeforeEnv
    /\ LoopIdle
    /\ \E n \in ImageCounts :
        /\ swapchain = CreateSwapchain(n)
        /\ m_descriptor_pools = DescriptorPoolScene(DefaultModel, n)
    /\ m_models = DefaultModel
    /\ allocated = Allocation(DefaultModel.materials, 0)
    /\ RecordIdle
    /\ SyncIdle
    /\ envmap_size \in EnvmapSizes
    /\ textures = NoTextures
    /\ m_descriptor_sets = NoDescriptorSets
    /\ copy_cmd = <<>>
    /\ level = 0
    /\ prevLevelWidth = 0
    /\ prevLevelHeight = 0

\* Texture2D* env_texture = new Texture2D(envmap_size, envmap_size, 6, ..., 0, ...)
CreateEnvTexture ==
    /\ pc = "env_texture"
    /\ textures' = [textures EXCEPT
                      !["env_texture"] = Texture2D(envmap_size, envmap_size, 6, 0)]
    /\ liveObjects' = liveObjects \cup {"env_texture"}
    /\ pc' = "env_skybox_set"
    /\ UNCHANGED <<envRest, allocated, envmap_size, m_descriptor_sets, copy_cmd,
                   level, prevLevelWidth, prevLevelHeight>>

\* m_descriptor_sets.skybox: allocated from the scene pool, binding 0 written
\* with env_texture->GetView()
WriteSkyboxSet ==
    /\ pc = "env_skybox_set"
    /\ IF Fits(Allocation(m_models.materials, 1), m_descriptor_pools)
       THEN /\ allocated' = Allocation(m_models.materials, 1)
            /\ m_descriptor_sets' =
                   [m_descriptor_sets EXCEPT !.skybox = "env_texture"]
            /\ pc' = "env_unfiltered"
       ELSE /\ pc' = "thrown"
            /\ UNCHANGED <<allocated, m_descriptor_sets>>
    /\ UNCHANGED <<envRest, liveObjects, envmap_size, textures, copy_cmd, level,
                   prevLevelWidth, prevLevelHeight>>

\* Texture2D* env_texture_unfiltered = new Texture2D(envmap_size, envmap_size, 6, ..., 0, ...)
CreateEnvTextureUnfiltered ==
    /\ pc = "env_unfiltered"
    /\ textures' = [textures EXCEPT
                      !["env_texture_unfiltered"] =
                          Texture2D(envmap_size, envmap_size, 6, 0)]
    /\ liveObjects' = liveObjects \cup {"env_texture_unfiltered"}
    /\ pc' = "env_pipeline"
    /\ UNCHANGED <<envRest, allocated, envmap_size, m_descriptor_sets, copy_cmd,
                   level, prevLevelWidth, prevLevelHeight>>

\* "Create compute pipeline": set layout, set, pipeline layout, pipeline
CreateComputePipeline ==
    /\ pc = "env_pipeline"
    /\ \E r \in CallResults :
        IF r = "SUCCESS"
        THEN /\ liveObjects' = liveObjects \cup
                    {"m_descriptorSetLayouts.compute",
                     "m_pipeline_layouts.compute", "m_pipelines.compute"}
             /\ pc' = "env_hdr"
        ELSE /\ pc' = "thrown"
             /\ UNCHANGED liveObjects
    /\ UNCHANGED <<envRest, allocated, envVars>>

\* envtexture_hdr = new Texture2D("../assets/environment.hdr", ...), then the
\* two writes of m_descriptor_sets.compute: binding 0 the hdr texture,
\* binding 1 env_texture_unfiltered->GetView()
WriteComputeSet ==
    /\ pc = "env_hdr"
    /\ \E w \in HdrSizes, h \in HdrSizes :
        textures' = [textures EXCEPT
                       !["envtexture_hdr"] = Texture2DFromFile(w, h)]
    /\ m_descriptor_sets' =
           [m_descriptor_sets EXCEPT !.input = "envtexture_hdr",
                                     !.output = "env_texture_unfiltered"]
    /\ pc' = "env_to_general"
    /\ UNCHANGED <<envRest, allocated, liveObjects, envmap_size, copy_cmd, level,
                   prevLevelWidth, prevLevelHeight>>

\* records the barrier b and goes to next; a barrier outside the rules of
\* vkCmdPipelineBarrier may also crash
RecordBarrier(b, next) ==
    /\ copy_cmd' = Append(copy_cmd, b)
    /\ \/ /\ textures' = ApplyBarrier(textures, b)
          /\ pc' = next
       \/ /\ ~BarrierDefined(textures, b)
          /\ pc' = "crashed"
          /\ UNCHANGED textures

\* BeginSingleTimeCommands; barrier UNDEFINED -> GENERAL on level 0 of
\* env_texture_unfiltered
BarrierToGeneral ==
    /\ pc = "env_to_general"
    /\ RecordBarrier(Barrier("env_texture_unfiltered", "UNDEFINED", "GENERAL",
                             LevelRange(0, 1),
                             RemainingLayers("env_texture_unfiltered")),
                     "env_dispatch")
    /\ UNCHANGED <<envRest, allocated, liveObjects, envmap_size,
                   m_descriptor_sets, level, prevLevelWidth, prevLevelHeight>>

\* vkCmdBindPipeline, vkCmdBindDescriptorSets(m_descriptor_sets.compute),
\* vkCmdDispatch(envmap_size / 32, envmap_size / 32, 6)
DispatchCompute ==
    /\ pc = "env_dispatch"
    /\ LET d == Dispatch(m_descriptor_sets.output,
                         <<envmap_size \div 32, envmap_size \div 32, 6>>)
       IN  /\ copy_cmd' = Append(copy_cmd, d)
           /\ \/ pc' = "env_to_src"
              \/ /\ ~DispatchDefined(textures, d)
                 /\ pc' = "crashed"
    /\ UNCHANGED <<envRest, allocated, liveObjects, envmap_size, textures,
                   m_descriptor_sets, level, prevLevelWidth, prevLevelHeight>>

\* barrier GENERAL -> TRANSFER_SRC on level 0
BarrierToTransferSrc ==
    /\ pc = "env_to_src"
    /\ RecordBarrier(Barrier("env_texture_unfiltered", "GENERAL",
                             "TRANSFER_SRC_OPTIMAL", LevelRange(0, 1),
                             RemainingLayers("env_texture_unfiltered")),
                     "env_submit")
    /\ UNCHANGED <<envRest, allocated, liveObjects, envmap_size,
                   m_descriptor_sets, level, prevLevelWidth, prevLevelHeight>>

\* EndSingleTimeCommands; vkDestroyPipeline(m_pipelines.compute); delete
\* envtexture_hdr; BeginSingleTimeCommands and the init of the mip loop
EndComputePass ==
    /\ pc = "env_submit"
    /\ liveObjects' = liveObjects \ {"m_pipelines.compute"}
    /\ textures' = [textures EXCEPT !["envtexture_hdr"] = NoTexture]
    /\ level' = 1
    /\ prevLevelWidth' = GetWidth("env_texture_unfiltered")
    /\ prevLevelHeight' = GetHeight("env_texture_unfiltered")
    /\ pc' = "env_mips"
    /\ UNCHANGED <<envRest, allocated, envmap_size, m_descriptor_sets, copy_cmd>>

\* the level the two barriers of the loop body name
LoopBarrierLevel == GetMipLevels("env_texture_unfiltered")

\* loop body, first barrier: UNDEFINED -> TRANSFER_DST
PreBlitBarrier ==
    /\ pc = "env_mips"
    /\ level < GetMipLevels("env_texture_unfiltered")
    /\ RecordBarrier(Barrier("env_texture_unfiltered", "UNDEFINED",
                             "TRANSFER_DST_OPTIMAL",
                             LevelRange(LoopBarrierLevel, 1),
                             RemainingLayers("env_texture_unfiltered")),
                     "env_blit")
    /\ UNCHANGED <<envRest, allocated, liveObjects, envmap_size,
                   m_descriptor_sets, level, prevLevelWidth, prevLevelHeight>>

\* loop body: vkCmdBlitImage from level - 1 to level
BlitLevel ==
    /\ pc = "env_blit"
    /\ LET b == Blit("env_texture_unfiltered", level - 1, level,
                     0 .. GetLayers("env_texture_unfiltered") - 1,
                     <<prevLevelWidth, prevLevelHeight>>,
                     <<prevLevelWidth \div 2, prevLevelHeight \div 2>>)
       IN  /\ copy_cmd' = Append(copy_cmd, b)
           /\ \/ pc' = "env_postblit"
              \/ /\ ~BlitDefined(textures, b)
                 /\ pc' = "crashed"
    /\ UNCHANGED <<envRest, allocated, liveObjects, envmap_size, textures,
                   m_descriptor_sets, level, prevLevelWidth, prevLevelHeight>>

\* loop body, second barrier: TRANSFER_DST -> TRANSFER_SRC; then
\* ++level, prevLevelWidth /= 2, prevLevelHeight /= 2
PostBlitBarrier ==
    /\ pc = "env_postblit"
    /\ RecordBarrier(Barrier("env_texture_unfiltered", "TRANSFER_DST_OPTIMAL",
                             "TRANSFER_SRC_OPTIMAL",
                             LevelRange(LoopBarrierLevel, 1),
                             RemainingLayers("env_texture_unfiltered")),
                     "env_mips")
    /\ level' = level + 1
    /\ prevLevelWidth' = prevLevelWidth \div 2
    /\ prevLevelHeight' = prevLevelHeight \div 2
    /\ UNCHANGED <<envRest, allocated, liveObjects, envmap_size,
                   m_descriptor_sets>>

\* the subresourceRange of the last barrier: only aspectMask is set, the
\* rest of the value-initialised struct is 0
FinalLevels == LevelRange(0, 0)
FinalLayers == LevelRange(0, 0)

\* after the loop: barrier TRANSFER_DST -> SHADER_READ_ONLY
FinalBarrier ==
    /\ pc = "env_mips"
    /\ ~(level < GetMipLevels("env_texture_unfiltered"))
    /\ RecordBarrier(Barrier("env_texture_unfiltered", "TRANSFER_DST_OPTIMAL",
                             "SHADER_READ_ONLY_OPTIMAL", FinalLevels,
                             FinalLayers),
                     "env_end")
    /\ UNCHANGED <<envRest, allocated, liveObjects, envmap_size,
                   m_descriptor_sets, level, prevLevelWidth, prevLevelHeight>>

\* EndSingleTimeCommands: SetupSkybox returns
EndMipPass ==
    /\ pc = "env_end"
    /\ pc' = "env_done"
    /\ UNCHANGED <<envRest, allocated, liveObjects, envVars>>

EnvNext ==
    \/ CreateEnvTexture \/ WriteSkyboxSet \/ CreateEnvTextureUnfiltered
    \/ CreateComputePipeline \/ WriteComputeSet \/ BarrierToGeneral
    \/ DispatchCompute \/ BarrierToTransferSrc \/ EndComputePass
    \/ PreBlitBarrier \/ BlitLevel \/ PostBlitBarrier \/ FinalBarrier
    \/ EndMipPass

SpecEnv == EnvInit /\ [][EnvNext]_vars

(***************************************************************************)
(* GraphicsDevice::Draw with its semaphores, the queue and the             *)
(* presentation engine.  The queue begins a submission when the semaphore  *)
(* it waits on is signaled and unsignals it; on completion it signals the  *)
(* signal semaphore and the fence.  The presentation engine executes the   *)
(* queued presents in order, each when its wait semaphore is signaled, and *)
(* then gives the image back; nothing the host can wait on tells when.     *)
(* vkAcquireNextImageKHR returns an image only when one is free.  The      *)
(* window is not minimized and not closed.                                 *)
(***************************************************************************)
syncRest == <<uniformBuffersMapped, ubo, m_command_buffers, width, fbSize,
              shouldClose, due, liveObjects, ctorVars, m_models, poolVars,
              nodeVars, envVars>>

\* image counts of the swapchain: as many as slots, and one more
SyncImageCounts == {m_render_ahead, m_render_ahead + 1}

\* the images of a new swapchain
NewImages(n) == [k \in 0 .. n - 1 |-> "free"]

SyncInit ==
    /\ pc = "poll"
    /\ debugBuild \in BOOLEAN
    /\ LoopIdle
    /\ m_wait_fences = [i \in Slots |-> "signaled"]
    /\ \E n \in SyncImageCounts :
        /\ swapchain = CreateSwapchain(n)
        /\ images = NewImages(n)
    /\ liveObjects = CreatedObjects
    /\ CtorDone
    /\ m_models = DefaultModel
    /\ PoolIdle
    /\ RecordIdle
    /\ EnvIdle
    /\ semaphores = [s \in Semaphores |-> "unsignaled"]
    /\ presentQueue = <<>>
    /\ drawCalls = <<>>

\* Application::Update: glfwPollEvents may run FramebufferResizeCallback
SyncPoll ==
    /\ pc = "poll"
    /\ \E resized \in BOOLEAN :
        m_framebuffer_resized' = (m_framebuffer_resized \/ resized)
    /\ pc' = "wait"
    /\ UNCHANGED <<syncRest, debugBuild, m_current_frame_index, m_wait_fences,
                   result, imageIndex, swapchain, gpuQueue, syncVars>>

\* vkWaitForFences and the test of m_framebuffer_resized
SyncWait ==
    /\ pc = "wait"
    /\ WaitForFences(m_current_frame_index)
    /\ pc' = IF m_framebuffer_resized THEN "rc_waitidle" ELSE "acquire"
    /\ UNCHANGED <<syncRest, debugBuild, m_current_frame_index, m_wait_fences,
                   m_framebuffer_resized, result, imageIndex, swapchain,
                   gpuQueue, syncVars>>

FreeImages == {k \in DOMAIN images : images[k] = "free"}

\* vkAcquireNextImageKHR and the branches on its result; with an image the
\* call signals the semaphore it was given.  On an error that LOG_ERROR lets
\* pass, imageIndex was never written: any index of an image, or one past
\* the last.  On a destroyed swapchain the call is undefined: it may also
\* crash.
SyncAcquire ==
    /\ pc = "acquire"
    /\ \/ /\ ~swapchain.live
          /\ pc' = "crashed"
          /\ UNCHANGED <<result, imageIndex, semaphores, images, drawCalls>>
       \/ \E r \in AcquireResults, img \in 0 .. swapchain.images :
            /\ result' = r
            /\ IF AcquireReturnsEarly(r)
               THEN /\ img = 0
                    /\ pc' = "rc_waitidle"
                    /\ UNCHANGED <<imageIndex, semaphores, images, drawCalls>>
               ELSE IF r \in {"SUCCESS", "SUBOPTIMAL"}
               THEN /\ img \in FreeImages
                    /\ imageIndex' = img
                    /\ images' = [images EXCEPT ![img] = "acquired"]
                    /\ semaphores' =
                         [semaphores EXCEPT
                            ![AcquireSemaphore(m_current_frame_index)] = "signaled"]
                    /\ drawCalls' =
                         <<AcquireCall(m_current_frame_index, r, img)>>
                    /\ pc' = "submit"
               ELSE /\ imageIndex' = img
                    /\ drawCalls' =
                         <<AcquireCall(m_current_frame_index, r, img)>>
                    /\ pc' = LOG_ERROR("submit")
                    /\ UNCHANGED <<semaphores, images>>
    /\ UNCHANGED <<syncRest, debugBuild, m_current_frame_index, m_wait_fences,
                   m_framebuffer_resized, swapchain, gpuQueue, presentQueue>>

\* the UBO copy, vkResetFences, vkResetCommandBuffer, RecordCommandBuffer
\* and vkQueueSubmit; beginning the render pass on a framebuffer that does
\* not exist is undefined: it may also crash
SyncSubmit ==
    /\ pc = "submit"
    /\ m_wait_fences' = ResetFences(m_current_frame_index)
    /\ \/ /\ RecordedFramebuffer # "live"
          /\ pc' = "crashed"
          /\ UNCHANGED <<gpuQueue, drawCalls>>
       \/ \E r \in SubmitResults :
            IF r = "SUCCESS"
            THEN /\ gpuQueue' =
                      Append(gpuQueue, SubmitInfo(m_current_frame_index))
                 /\ drawCalls' =
                      Append(drawCalls, SubmitInfo(m_current_frame_index))
                 /\ pc' = "present"
            ELSE /\ pc' = LOG_ERROR("present")
                 /\ UNCHANGED <<gpuQueue, drawCalls>>
    /\ UNCHANGED <<syncRest, debugBuild, m_current_frame_index,
                   m_framebuffer_resized, result, imageIndex, swapchain,
                   semaphores, presentQueue, images>>

\* the image a present hands to the presentation engine
QueueImage(img) ==
    [k \in DOMAIN images |->
        IF k = img /\ images[k] = "acquired" THEN "queued" ELSE images[k]]

\* vkQueuePresentKHR: the present is queued unless the call failed with an
\* error other than OUT_OF_DATE; on a destroyed swapchain the call is
\* undefined: it may also crash
SyncPresent ==
    /\ pc = "present"
    /\ \/ /\ ~swapchain.live
          /\ pc' = "crashed"
          /\ UNCHANGED <<result, presentQueue, images, drawCalls>>
       \/ \E r \in PresentResults :
            /\ result' = r
            /\ drawCalls' = Append(drawCalls, PresentInfo(m_current_frame_index))
            /\ IF r = "ERROR"
               THEN UNCHANGED <<presentQueue, images>>
               ELSE /\ presentQueue' =
                         Append(presentQueue, PresentInfo(m_current_frame_index))
                    /\ images' = QueueImage(imageIndex)
            /\ pc' = "present_result"
    /\ UNCHANGED <<syncRest, debugBuild, m_current_frame_index, m_wait_fences,
                   m_framebuffer_resized, imageIndex, swapchain, gpuQueue,
                   semaphores>>

\* the branches on the result of the present and the slot advance; when Draw
\* returns its locals are gone
SyncPresentResult ==
    /\ pc = "present_result"
    /\ LET next == IF PresentNeedsRecreate(result) \/ result = "SUCCESS"
                   THEN "poll" ELSE LOG_ERROR("poll")
       IN  /\ pc' = next
           /\ IF PresentNeedsRecreate(result)
              THEN /\ m_framebuffer_resized' = FALSE
                   /\ swapchain' = CleanUpSwapchain
              ELSE UNCHANGED <<m_framebuffer_resized, swapchain>>
           /\ IF next = "poll"
              THEN /\ m_current_frame_index' =
                        NextFrameIndex(m_current_frame_index)
                   /\ result' = "NONE"
                   /\ imageIndex' = 0
                   /\ drawCalls' = <<>>
              ELSE UNCHANGED <<m_current_frame_index, result, imageIndex,
                               drawCalls>>
    /\ UNCHANGED <<syncRest, debugBuild, m_wait_fences, gpuQueue, semaphores,
                   presentQueue, images>>

\* RecreateSwapchain: vkDeviceWaitIdle waits for the queue and for the queued
\* presents; then CleanUpSwapchain and the new swapchain.  Back in Draw:
\* m_framebuffer_resized = false; return.  Destroying what CleanUpSwapchain
\* already destroyed is undefined: it may also crash.
SyncRecreate ==
    /\ pc = "rc_waitidle"
    /\ gpuQueue = <<>>
    /\ presentQueue = <<>>
    /\ \/ /\ ~swapchain.live
          /\ pc' = "crashed"
          /\ UNCHANGED <<swapchain, images, m_framebuffer_resized>>
       \/ /\ \E n \in SyncImageCounts :
               /\ swapchain' = CreateSwapchain(n)
               /\ images' = NewImages(n)
          /\ m_framebuffer_resized' = FALSE
          /\ pc' = "poll"
    /\ result' = "NONE"
    /\ UNCHANGED <<syncRest, debugBuild, m_current_frame_index, m_wait_fences,
                   imageIndex, gpuQueue, semaphores, presentQueue, drawCalls>>

\* the queue begins the oldest submission: its semaphore wait is satisfied
QueueBegin ==
    /\ pc \notin Terminal
    /\ gpuQueue # <<>>
    /\ ~Head(gpuQueue).started
    /\ semaphores[Head(gpuQueue).wait] = "signaled"
    /\ semaphores' = [semaphores EXCEPT ![Head(gpuQueue).wait] = "unsignaled"]
    /\ gpuQueue' = [gpuQueue EXCEPT ![1].started = TRUE]
    /\ UNCHANGED <<syncRest, pc, debugBuild, m_current_frame_index,
                   m_wait_fences, m_framebuffer_resized, result, imageIndex,
                   swapchain, presentQueue, images, drawCalls>>

\* the oldest submission completes: signal semaphore and fence are signaled
QueueComplete ==
    /\ pc \notin Terminal
    /\ gpuQueue # <<>>
    /\ Head(gpuQueue).started
    /\ semaphores' = [semaphores EXCEPT ![Head(gpuQueue).signal] = "signaled"]
    /\ m_wait_fences' =
          [m_wait_fences EXCEPT ![Head(gpuQueue).fence] = "signaled"]
    /\ gpuQueue' = Tail(gpuQueue)
    /\ UNCHANGED <<syncRest, pc, debugBuild, m_current_frame_index,
                   m_framebuffer_resized, result, imageIndex, swapchain,
                   presentQueue, images, drawCalls>>

\* the presentation engine executes the oldest present: it consumes the wait
\* semaphore and the image becomes free again
PresentExecute ==
    /\ pc \notin Terminal
    /\ presentQueue # <<>>
    /\ semaphores[Head(presentQueue).wait] = "signaled"
    /\ semaphores' =
          [semaphores EXCEPT ![Head(presentQueue).wait] = "unsignaled"]
    /\ images' =
          [k \in DOMAIN images |->
              IF k = Head(presentQueue).image /\ images[k] = "queued"
              THEN "free" ELSE images[k]]
    /\ presentQueue' = Tail(presentQueue)
    /\ UNCHANGED <<syncRest, pc, debugBuild, m_current_frame_index,
                   m_wait_fences, m_framebuffer_resized, result, imageIndex,
                   swapchain, gpuQueue, drawCalls>>

SyncNext ==
    \/ SyncPoll \/ SyncWait \/ SyncAcquire \/ SyncSubmit \/ SyncPresent
    \/ SyncPresentResult \/ SyncRecreate \/ QueueBegin \/ QueueComplete \/ PresentExecute

SpecSync == SyncInit /\ [][SyncNext]_vars

(***************************************************************************)
(* Properties of the frame loop.                                           *)
(***************************************************************************)
RecreatePcs == {"rc_getsize", "rc_loop", "rc_waitevents", "rc_waitidle", "rc_body"}

PendingOn(i) == {k \in 1 .. Len(gpuQueue) : gpuQueue[k].slot = i}

\* C1: when the present of a frame returned OUT_OF_DATE or SUBOPTIMAL (or the
\* resized flag was set), a full Recreate has happened before the next
\* vkAcquireNextImageKHR is called.
C1_RecreateBeforeNextAcquire ==
    pc = "acquire" => "present" \notin due

\* C2: no swapchain-derived resource is destroyed while a submitted command
\* buffer that renders to it is still on the GPU.
C2_NoDestroyInFlight ==
    \A k \in 1 .. Len(gpuQueue) : gpuQueue[k].fb # "destroyed_in_flight"

\* C3: frame pacing.  Between the return of the fence wait and the UBO write
\* of a Draw on slot i, fence[i] is signaled and no submission of slot i is
\* pending; and a uniform buffer changes only then, and only slot i's.
C3_FramePacing ==
    /\ [](pc \in {"check_resized", "acquire", "update"} =>
             /\ m_wait_fences[m_current_frame_index] = "signaled"
             /\ ~Pending(m_current_frame_index))
    /\ [][\A i \in Slots :
             uniformBuffersMapped'[i] # uniformBuffersMapped[i] =>
                 /\ pc = "update"
                 /\ i = m_current_frame_index
                 /\ m_wait_fences[i] = "signaled"
                 /\ ~Pending(i)]_vars

\* a Draw on slot 0 is about to write its UBO while the frame of slot 1 is
\* still on the GPU
C3_Witness ==
    /\ pc = "update"
    /\ m_current_frame_index = 0
    /\ Pending(1)

\* C4: when Draw resets and records cmd[i], no submission of cmd[i] is
\* pending, and fence[i] has been reset before the recording and before the
\* submit.
C4_RecordAfterFence ==
    /\ pc \in {"reset", "record", "submit"} => ~Pending(m_current_frame_index)
    /\ pc \in {"record", "submit"} =>
           m_wait_fences[m_current_frame_index] = "unsignaled"

\* a command buffer that was recorded before is recorded again while the
\* other slot's frame is on the GPU
C4_Witness ==
    /\ pc = "record"
    /\ m_command_buffers[m_current_frame_index] # "initial"
    /\ Len(gpuQueue) = 1

\* C5: a slot is submitted again only after its previous submission has
\* finished, so at most m_render_ahead submissions are unfinished.
C5_RenderAhead ==
    /\ Len(gpuQueue) <= m_render_ahead
    /\ \A i \in Slots : Cardinality(PendingOn(i)) <= 1
    /\ pc = "submit" => ~Pending(m_current_frame_index)

\* both slots have a frame on the GPU
C5_Witness ==
    /\ Len(gpuQueue) = m_render_ahead
    /\ \A i \in Slots : Pending(i)

\* C6: the uniform data the GPU reads for the frame submitted by a Draw on
\* slot i is the UBO that this Draw wrote.
C6_GpuReadsOwnUbo ==
    \A k \in 1 .. Len(gpuQueue) :
        gpuQueue[k].read # -1 => gpuQueue[k].read = gpuQueue[k].wrote

\* C7: whenever Draw waits on fence[i], the fence is signaled or a submission
\* that will signal it is pending.
C7_WaitedFenceWillSignal ==
    pc = "wait" =>
        \/ m_wait_fences[m_current_frame_index] = "signaled"
        \/ Pending(m_current_frame_index)

\* C8: the slot index stays in 0..render_ahead-1, changes only at the end of
\* a Draw that presented, and is then (i+1) mod render_ahead; the early
\* returns leave it unchanged.
C8_SlotIndexAdvance ==
    /\ [](m_current_frame_index \in 0 .. (m_render_ahead - 1))
    /\ [][/\ (m_current_frame_index' # m_current_frame_index =>
                 pc = "present" /\ pc' = "loop")
          /\ (pc = "present" /\ pc' = "loop" =>
                 m_current_frame_index' =
                     (m_current_frame_index + 1) % m_render_ahead)
          /\ (pc \in RecreatePcs =>
                 m_current_frame_index' = m_current_frame_index)]_vars

\* a Draw on slot 1 takes an early return
C8_Witness ==
    /\ pc = "rc_body"
    /\ m_current_frame_index = 1

\* C9: on OUT_OF_DATE from the acquire, Draw goes to RecreateSwapchain and
\* returns: no UBO write, no fence reset, no recording, no submit, no
\* present; fence[i] stays signaled and the slot index is kept.
C9_AcquireOutOfDate ==
    /\ [][(pc = "acquire" /\ result' = "OUT_OF_DATE") =>
             /\ pc' = "rc_getsize"
             /\ UNCHANGED <<m_current_frame_index, m_wait_fences,
                            uniformBuffersMapped, m_command_buffers,
                            gpuQueue>>]_vars
    /\ [](pc \in RecreatePcs /\ result = "OUT_OF_DATE" =>
             /\ m_wait_fences[m_current_frame_index] = "signaled"
             /\ ~Pending(m_current_frame_index))
    /\ [][(pc \in RecreatePcs /\ result = "OUT_OF_DATE") =>
             /\ pc' \in RecreatePcs \cup {"loop", "crashed"}
             /\ (pc' = "loop" => (pc = "rc_body" /\ swapchain'.live))
             /\ UNCHANGED <<m_current_frame_index, uniformBuffersMapped,
                            m_command_buffers>>
             /\ m_wait_fences'[m_current_frame_index] = "signaled"
             /\ (Len(gpuQueue') <= Len(gpuQueue))]_vars

\* the Recreate that follows an OUT_OF_DATE acquire is about to run
C9_Witness ==
    /\ pc = "rc_body"
    /\ result = "OUT_OF_DATE"

\* C10: after an acquire that returned SUBOPTIMAL, a Recreate has happened
\* before the next vkAcquireNextImageKHR is called, whatever the present
\* returned.
C10_RecreateAfterSuboptimalAcquire ==
    pc = "acquire" => "acquire" \notin due

\* C11: while RecreateSwapchain is blocked in glfwWaitEvents the framebuffer
\* size is still zero: it does not stay blocked once the size is non-zero.
C11_BlockedOnlyWhileMinimized ==
    pc = "rc_waitevents" => fbSize = 0

\* C12: a resize-triggered Recreate (no acquire was attempted in this Draw)
\* destroys a swapchain set that is still alive, hence destroys it exactly
\* once, does so with the device idle, and leaves a live set with one
\* framebuffer per image view and the extent of the current size.
C12_ResizeIdempotence ==
    [][(pc = "rc_body" /\ result = "NONE" /\ pc' = "loop")
          => /\ swapchain.live
             /\ gpuQueue = <<>>
             /\ swapchain'.live
             /\ swapchain'.framebuffers = swapchain'.images
             /\ swapchain'.extent = fbSize]_vars

\* C13: when CleanUp has destroyed the device, no object created by the
\* constructor, Setup, CreateUniformBuffer or SetupSkybox is still alive.
C13_NothingLiveAtDeviceDestroy ==
    pc = "terminated" => (liveObjects = {} /\ ~swapchain.live)

\* C20: when vkAcquireNextImageKHR returns a result other than success,
\* suboptimal or out-of-date, or vkQueueSubmit a result other than success
\* (nothing is enqueued), the step ends the loop: nothing is recorded,
\* submitted or presented after it.
C20_ErrorTerminatesLoop ==
    [][(\/ pc = "acquire" /\ result' = "ERROR"
        \/ pc = "submit" /\ pc' # "submit" /\ gpuQueue' = gpuQueue)
          => pc' \in Terminal]_vars

(***************************************************************************)
(* Properties of RecordCommandBuffer and DrawNode.                         *)
(***************************************************************************)
AllPrimitives ==
    UNION {{m_models.nodes[i].mesh[k] : k \in 1 .. Len(m_models.nodes[i].mesh)} :
           i \in 1 .. Len(m_models.nodes)}

DrawPositions == {k \in 1 .. Len(commands) : commands[k].op = "draw_indexed"}

\* the primitive that the draw at position k of the command buffer draws
DrawnPrimitive(k) ==
    CHOOSE p \in AllPrimitives : p.first_index = commands[k].first_index

\* the descriptor set bound when the draw at position k executes
BoundSet(k) == commands[k - 1].set

Clamp(x, lo, hi) == IF x < lo THEN lo ELSE IF x > hi THEN hi ELSE x

\* the primitives of the nodes and of their descendants, in pre-order
RECURSIVE PreOrder(_)
PreOrder(nodes) ==
    IF nodes = <<>> THEN <<>>
    ELSE m_models.nodes[Head(nodes)].mesh
            \o PreOrder(m_models.nodes[Head(nodes)].children)
            \o PreOrder(Tail(nodes))

\* C14: a primitive whose material_index is negative or not below the
\* number of materials is drawn with the set of materials[0] bound, and no
\* material outside the array is accessed.
C14_DefaultMaterialFallback ==
    \A k \in DrawPositions :
        LET mi == DrawnPrimitive(k).material_index
        IN  /\ BoundSet(k).material < m_models.materials
            /\ (mi < 0 \/ mi >= m_models.materials) => BoundSet(k).material = 0

\* C15: every primitive is drawn with the set of
\* materials[clamp(material_index, 0, n - 1)] bound: the index used is
\* within 0 .. n-1.
C15_MaterialIndexClamped ==
    \A k \in DrawPositions :
        /\ BoundSet(k).material \in 0 .. m_models.materials - 1
        /\ BoundSet(k).material =
              Clamp(DrawnPrimitive(k).material_index, 0, m_models.materials - 1)

\* the set of a primitive's material, materials[0] when it has none
MaterialSetOf(primitive) ==
    IF primitive.material_index \in 0 .. m_models.materials - 1
    THEN [material |-> primitive.material_index, in_range |-> TRUE]
    ELSE [material |-> 0, in_range |-> TRUE]

RECURSIVE BindAndDraw(_)
BindAndDraw(primitives) ==
    IF primitives = <<>> THEN <<>>
    ELSE <<[op |-> "bind_descriptor_sets", set |-> MaterialSetOf(Head(primitives))],
           [op |-> "draw_indexed", index_count |-> Head(primitives).index_count,
            instance_count |-> 1, first_index |-> Head(primitives).first_index,
            vertex_offset |-> 0, first_instance |-> 0]>>
         \o BindAndDraw(Tail(primitives))

\* C16: RecordCommandBuffer completes, and what it recorded is, for the
\* primitives of the tree in pre-order, one draw_indexed(index_count, 1,
\* first_index, 0, 0) each, immediately preceded by the bind of the
\* primitive's material set.
C16_NodeTraversal ==
    /\ pc # "crashed"
    /\ pc = "rec_done" => commands = BindAndDraw(PreOrder(m_models.roots))

(***************************************************************************)
(* Properties of the scene descriptor pool.  M materials, K linear nodes   *)
(* that carry a mesh, S swapchain images.                                  *)
(***************************************************************************)
PoolCreated == "m_descriptor_pools.scene" \in liveObjects

MaterialsOfModel == m_models.materials

MeshNodesOfModel ==
    Cardinality({i \in 1 .. Len(m_models.nodes) : m_models.nodes[i].mesh # <<>>})

\* C17: the pool is created with max_sets >= (2 + K + M) * S, a
\* combined-image-sampler capacity >= 5 * M * S + 2 and a uniform-buffer
\* capacity >= (4 + K) * S.
C17_PoolSizing ==
    PoolCreated =>
        LET M == MaterialsOfModel
            K == MeshNodesOfModel
            S == swapchain.images
        IN  /\ m_descriptor_pools.maxSets >= (2 + K + M) * S
            /\ m_descriptor_pools.samplers >= 5 * M * S + 2
            /\ m_descriptor_pools.uniformBuffers >= (4 + K) * S

C17_Witness ==
    /\ PoolCreated
    /\ pc = "setup_done"
    /\ MaterialsOfModel = MaxPoolMaterials
    /\ MeshNodesOfModel = MaxNodes
    /\ swapchain.images = MaxImages

\* C18 as stated: the combined-image-sampler capacity of the pool is at
\* least (5 * M + 2) * S.
C18_SamplersPerImage ==
    PoolCreated =>
        m_descriptor_pools.samplers
            >= (5 * MaterialsOfModel + 2) * swapchain.images

\* C18, amended: the 2 skybox descriptors are counted once, not once per
\* swapchain image: the capacity is at least (5 * M + 2) * S - 2 * (S - 1).
C18_SamplersSkyboxOnce ==
    PoolCreated =>
        m_descriptor_pools.samplers
            >= (5 * MaterialsOfModel + 2) * swapchain.images
               - 2 * (swapchain.images - 1)

C18_Witness ==
    /\ PoolCreated
    /\ MaterialsOfModel > 0
    /\ swapchain.images > 1
    /\ allocated = Allocation(MaterialsOfModel, 1)

(***************************************************************************)
(* Properties of the constructor.                                          *)
(***************************************************************************)
\* C19: when no enumerated device is suitable, the constructor does not go
\* on to create the logical device, the command pool or the sync objects:
\* it is at none of these steps with a null m_physical_device.
C19_NoDeviceFromNullPhysicalDevice ==
    pc \in {"ctor_device", "ctor_pool", "ctor_sync", "ctor_done"}
        => m_physical_device # 0
(***************************************************************************)
(* Properties of SetupSkybox (SpecEnv).                                    *)
(***************************************************************************)
LastCommand == copy_cmd[Len(copy_cmd)]

\* the cube the compute pass and the mip generation work on
EnvCube == textures["env_texture_unfiltered"]

\* C21: when SetupSkybox has returned, the environment cube of side s has
\* floor(log2 s) + 1 mip levels, and every one of them, all layers, is in
\* SHADER_READ_ONLY.
C21_EnvMipChainReadOnly ==
    pc = "env_done" =>
        /\ EnvCube.m_mip_levels = FloorLog2(envmap_size) + 1
        /\ envmap_size = 1024 => EnvCube.m_mip_levels = 11
        /\ \A l \in 0 .. EnvCube.m_mip_levels - 1 :
            EnvCube.layout[l] = "SHADER_READ_ONLY_OPTIMAL"

\* C23: the mip generation takes the levels L = 1 .. N-1 in ascending order.
\* For each L the barrier to TRANSFER_DST names level L itself, the blit
\* reads L-1 in TRANSFER_SRC and writes L in TRANSFER_DST, all 6 layers, at
\* half the extent of the source, and the barrier after the blit has moved L
\* to TRANSFER_SRC before the next iteration reads it.
C23_MipGenerationOrder ==
    /\ pc = "env_blit" =>
        /\ LastCommand.cmd = "barrier"
        /\ LastCommand.newLayout = "TRANSFER_DST_OPTIMAL"
        /\ LastCommand.levels = {level}
        /\ EnvCube.layout[level] = "TRANSFER_DST_OPTIMAL"
    /\ pc = "env_postblit" =>
        /\ LastCommand.cmd = "blit"
        /\ LastCommand.srcLevel = level - 1
        /\ LastCommand.dstLevel = level
        /\ LastCommand.layers = 0 .. 5
        /\ LastCommand.dstExtent =
               <<LastCommand.srcExtent[1] \div 2, LastCommand.srcExtent[2] \div 2>>
        /\ EnvCube.layout[level - 1] = "TRANSFER_SRC_OPTIMAL"
        /\ EnvCube.layout[level] = "TRANSFER_DST_OPTIMAL"
    /\ (pc = "env_mips" /\ level > 1) =>
        /\ LastCommand.cmd = "barrier"
        /\ LastCommand.newLayout = "TRANSFER_SRC_OPTIMAL"
        /\ LastCommand.levels = {level - 1}
        /\ EnvCube.layout[level - 1] = "TRANSFER_SRC_OPTIMAL"
    /\ pc \in {"env_mips", "env_blit", "env_postblit"} =>
        level \in 1 .. EnvCube.m_mip_levels

\* C29: every command SetupSkybox records agrees with the tracked layouts at
\* the point it is recorded: a barrier has an oldLayout that is UNDEFINED or
\* the layout of every level it covers, and a range of at least one level
\* all of whose levels exist; the compute write and every blit touch a level
\* only in the layout a barrier has put it in.
C29_BarriersMatchLayouts ==
    [][copy_cmd' # copy_cmd =>
        LET c == copy_cmd'[Len(copy_cmd')]
        IN  /\ c.cmd = "barrier" => BarrierDefined(textures, c)
            /\ c.cmd = "dispatch" => DispatchDefined(textures, c)
            /\ c.cmd = "blit" => BlitDefined(textures, c)]_vars

\* C30: when SetupSkybox has returned, the image written into the skybox
\* descriptor set is the image the compute dispatch wrote, the image of
\* every blit and the image of every barrier of the mip generation.
C30_SkyboxSamplesEnvCube ==
    pc = "env_done" =>
        /\ m_descriptor_sets.skybox = m_descriptor_sets.output
        /\ \A k \in 1 .. Len(copy_cmd) :
            copy_cmd[k].image = m_descriptor_sets.skybox


(***************************************************************************)
(* Properties of the semaphores of Draw (SpecSync).                        *)
(***************************************************************************)
SlotSemaphores(i) == {RenderCompleteSemaphore(i), PresentCompleteSemaphore(i)}

\* the running Draw called the acquire, submitted and called the present
FramePresented ==
    /\ pc = "present_result"
    /\ Len(drawCalls) = 3

\* C22: for every frame rendered on slot i, the submit of cmd[i] waits at
\* COLOR_ATTACHMENT_OUTPUT on exactly the semaphore that this Draw passed to
\* the acquire, it signals the other semaphore of the slot and fence[i], and
\* the present waits on exactly the semaphore the submit signals and
\* presents the image index the acquire left in imageIndex.
C22_FrameOrderBySemaphores ==
    FramePresented =>
        LET i == m_current_frame_index
            acquire == drawCalls[1]
            submit == drawCalls[2]
            present == drawCalls[3]
        IN  /\ acquire.semaphore \in SlotSemaphores(i)
            /\ submit.wait = acquire.semaphore
            /\ submit.stage = "COLOR_ATTACHMENT_OUTPUT"
            /\ submit.cmd = i
            /\ submit.signal \in SlotSemaphores(i) \ {submit.wait}
            /\ submit.fence = i
            /\ present.wait = submit.signal
            /\ present.image = acquire.image

\* a frame was presented on the second slot after one on the first
C22_Witness ==
    /\ FramePresented
    /\ m_current_frame_index = 1
    /\ drawCalls[1].result = "SUCCESS"
    /\ drawCalls[1].image # 0

\* a submission not yet begun, or a queued present, waits on semaphore s
PendingWait(s) ==
    \/ \E k \in 1 .. Len(gpuQueue) :
          gpuQueue[k].wait = s /\ ~gpuQueue[k].started
    \/ \E k \in 1 .. Len(presentQueue) : presentQueue[k].wait = s

\* C28: the semaphores of a slot are not reused while in use.  When Draw on
\* slot i passes its acquire semaphore to the acquire, that semaphore is
\* unsignaled and nothing waits on it; when Draw submits the work that
\* signals the other semaphore of the slot, no earlier present that waits
\* on it is still queued.  For every swapchain image count from 2 on.
C28_SemaphoresNotReused ==
    /\ pc = "acquire" =>
        /\ semaphores[AcquireSemaphore(m_current_frame_index)] = "unsignaled"
        /\ ~PendingWait(AcquireSemaphore(m_current_frame_index))
    /\ pc = "submit" =>
        \A k \in 1 .. Len(presentQueue) :
            presentQueue[k].wait # SignalSemaphores(m_current_frame_index)

(***************************************************************************)
(* Further properties of the frame loop (Spec).                            *)
(***************************************************************************)
\* the uniform buffers the descriptor sets of the frames in flight refer to
BuffersInFlight ==
    {DescriptorUniformBuffer(gpuQueue[k].slot) : k \in 1 .. Len(gpuQueue)}

\* C24: the CPU never writes a uniform buffer that a submitted, unfinished
\* command buffer reads through its descriptor set: with frames in flight on
\* both slots, the buffer Draw on slot i writes is not the buffer of a frame
\* that is still executing.
C24_NoUboWriteWhileRead ==
    pc = "update" => UboWriteIndex(m_current_frame_index) \notin BuffersInFlight

\* C25: over any sequence of Draw, RecreateSwapchain and CleanUp, nothing
\* that CleanUpSwapchain destroys is destroyed twice (by the CleanUpSwapchain
\* of RecreateSwapchain, of CleanUp or of the present branch of Draw), and
\* nothing of it is used by the acquire, by the begin of the render pass or
\* by the present after its destruction without having been created again.
C25_NoDoubleDestroyNoUseAfterDestroy ==
    pc \in {"acquire", "record", "present", "rc_body", "cu_body"} =>
        swapchain.live

\* C26: the indices of the frame loop are in range: m_command_buffers, which
\* Setup sizes by the swapchain image count, is indexed by a slot index below
\* its size, and m_framebuffers is indexed by an image index below its size,
\* also after a Recreate that changed the image count.
C26_IndicesInRange ==
    /\ \A n \in ImageCounts : \A i \in Slots : i < CommandBufferCount(n)
    /\ pc \in {"reset", "record", "submit"} =>
        m_current_frame_index \in Slots
    /\ pc = "record" => imageIndex < swapchain.framebuffers

(***************************************************************************)
(* Further property of the descriptor pool (SpecPool).                     *)
(***************************************************************************)
\* C27: the scene pool is never exhausted during setup: for every number of
\* materials M, of meshes K and of swapchain images S, each of the M material
\* sets (1 uniform buffer and 5 samplers) and the skybox set (1 sampler) is
\* allocated within max_sets = (2 + K + M) * S, 5 * M * S + 2 samplers and
\* (4 + K) * S uniform buffers.
C27_PoolNeverExhausted ==
    /\ (pc = "setup_sets" /\ allocated.sets < m_models.materials) =>
        Fits(Allocation(allocated.sets + 1, 0), m_descriptor_pools)
    /\ pc = "setup_skybox" =>
        Fits(Allocation(m_models.materials, 1), m_descriptor_pools)

====
